---- MODULE Spec2Model ----
(***************************************************************************)
(* Model of github.com/gophercord/snowflake (src/snowflake.go,             *)
(* src/errors.go): the Snowflake value model and its text codec.           *)
(*                                                                         *)
(* A uint64 is a tuple of four 16-bit limbs, least significant first, so   *)
(* every 64-bit operation of the Go code keeps its width and wraps where   *)
(* Go wraps.  A Go string / []byte is a sequence of byte values.           *)
(***************************************************************************)
EXTENDS Integers, Sequences, FiniteSets, TLC

(***************************************************************************)
(* uint64 arithmetic                                                       *)
(***************************************************************************)

\* One limb holds 16 bits.
LimbBase == 65536

Pow2(n) == 2 ^ n

Zero == <<0, 0, 0, 0>>
One == <<1, 0, 0, 0>>
MaxUint64 == <<65535, 65535, 65535, 65535>>

\* Binary digit i (0 = least significant) of the uint64 a.
BitAt(a, i) == (a[(i \div 16) + 1] \div Pow2(i % 16)) % 2

\* The uint64 whose binary digits are b[0..63].
FromBits(b) ==
    [k \in 1..4 |->
        LET o == 16 * (k - 1)
        IN b[o] + 2 * b[o + 1] + 4 * b[o + 2] + 8 * b[o + 3]
           + 16 * b[o + 4] + 32 * b[o + 5] + 64 * b[o + 6] + 128 * b[o + 7]
           + 256 * b[o + 8] + 512 * b[o + 9] + 1024 * b[o + 10] + 2048 * b[o + 11]
           + 4096 * b[o + 12] + 8192 * b[o + 13] + 16384 * b[o + 14]
           + 32768 * b[o + 15]]

\* Go's a & b on uint64.
And(a, b) == FromBits([i \in 0..63 |-> BitAt(a, i) * BitAt(b, i)])

\* Go's a >> n on uint64 (n >= 64 yields 0).
Shr(a, n) == FromBits([i \in 0..63 |-> IF i + n <= 63 THEN BitAt(a, i + n) ELSE 0])

\* Go's a << n on uint64 (bits shifted past bit 63 are lost; n >= 64 yields 0).
Shl(a, n) == FromBits([i \in 0..63 |-> IF i >= n THEN BitAt(a, i - n) ELSE 0])

\* Go's a + b on uint64: the sum modulo 2^64.
Add(a, b) ==
    LET c1 == (a[1] + b[1]) \div LimbBase
        c2 == (a[2] + b[2] + c1) \div LimbBase
        c3 == (a[3] + b[3] + c2) \div LimbBase
    IN << (a[1] + b[1]) % LimbBase,
          (a[2] + b[2] + c1) % LimbBase,
          (a[3] + b[3] + c2) % LimbBase,
          (a[4] + b[4] + c3) % LimbBase >>

\* Go's a * m on uint64 for a small multiplier m: the product modulo 2^64.
MulSmall(a, m) ==
    LET p1 == a[1] * m
        p2 == a[2] * m + (p1 \div LimbBase)
        p3 == a[3] * m + (p2 \div LimbBase)
        p4 == a[4] * m + (p3 \div LimbBase)
    IN << p1 % LimbBase, p2 % LimbBase, p3 % LimbBase, p4 % LimbBase >>

\* Go's a / d and a % d on uint64 for a small divisor d.
DivMod(a, d) ==
    LET n4 == a[4]
        n3 == (n4 % d) * LimbBase + a[3]
        n2 == (n3 % d) * LimbBase + a[2]
        n1 == (n2 % d) * LimbBase + a[1]
    IN [quo |-> << n1 \div d, n2 \div d, n3 \div d, n4 \div d >>, rem |-> n1 % d]

\* Go's a < b on uint64.
Less(a, b) ==
    \E k \in 1..4 : a[k] < b[k] /\ \A j \in (k + 1)..4 : a[j] = b[j]

\* uint64(n) for a small non-negative int n.
FromNat(n) == << n % LimbBase, n \div LimbBase, 0, 0 >>

(***************************************************************************)
(* Package variables and types (snowflake.go:18-70)                        *)
(***************************************************************************)

\* Epoch uint64 = 1420070400000
DefaultEpoch == <<45056, 41674, 330, 0>>

\* AllowUnquoted = true
DefaultAllowUnquoted == TRUE

(***************************************************************************)
(* Snowflake methods                                                       *)
(***************************************************************************)

\* A variant of UnixMilli whose addition saturates instead of wrapping.
UnixMilli_Saturating(s, epoch) ==
    IF Less(Add(Shr(s, 22), epoch), epoch) THEN MaxUint64 ELSE Add(Shr(s, 22), epoch)

\* A variant of UnixMilli that adds the Epoch the package starts with.
UnixMilli_DefaultEpoch(s, epoch) == Add(Shr(s, 22), DefaultEpoch)

\* func (s Snowflake) UnixMilli() uint64 { return uint64(s>>22) + Epoch }
UnixMilli(s, epoch) == Add(Shr(s, 22), epoch)

\* func (s Snowflake) Unix() uint64 { return (uint64(s>>22) + Epoch) / 1_000 }
Unix(s, epoch) == DivMod(Add(Shr(s, 22), epoch), 1000).quo

\* 0x3E0000, 0x1F000 and 0xFFF
WorkerMask == <<0, 62, 0, 0>>
ProcessMask == <<61440, 1, 0, 0>>
SequenceMask == <<4095, 0, 0, 0>>

\* uint8(x) and uint16(x): the conversion keeps the low bits.
ToUint8(x) == x[1] % 256
ToUint16(x) == x[1]

\* A variant of WorkerID that shifts by 16 instead of 17.
WorkerID_Shift16(s) == ToUint8(Shr(And(s, WorkerMask), 16))

\* func (s Snowflake) WorkerID() uint8 { return uint8((s & 0x3E0000) >> 17) }
WorkerID(s) == ToUint8(Shr(And(s, WorkerMask), 17))

\* func (s Snowflake) ProcessID() uint8 { return uint8((s & 0x1F000) >> 12) }
ProcessID(s) == ToUint8(Shr(And(s, ProcessMask), 12))

\* func (s Snowflake) Sequence() uint16 { return uint16(s & 0xFFF) }
Sequence(s) == ToUint16(And(s, SequenceMask))

\* A variant of Bit without the range check, on a machine whose shift takes
\* its count modulo 64.
Bit_ShiftCountWraps(s, i) == And(s, Shl(One, i % 64)) # Zero

\* func (s Snowflake) Bit(i uint8) Bit { return i < 64 && s&(1<<i) != 0 }
Bit(s, i) == i < 64 /\ And(s, Shl(One, i)) # Zero

\* A variant of Bitmap that puts the most significant bit first.
Bitmap_MostSignificantFirst(s) == [i \in 0..63 |-> And(s, Shl(One, 63 - i)) # Zero]

\* func (s Snowflake) Bitmap() Bitmap: bits[i] = s&(1<<i) != 0 for i := range bits
Bitmap(s) == [i \in 0..63 |-> And(s, Shl(One, i)) # Zero]

(***************************************************************************)
(* int64 and time.Time.  An int64 is its two's complement bit pattern, in  *)
(* the same four limbs as a uint64, so int64(x) and uint64(x) keep the     *)
(* limbs.  A time.Time is the instant sec seconds and nsec nanoseconds     *)
(* after 1970-01-01T00:00:00Z, 0 <= nsec < 10^9.                           *)
(***************************************************************************)

\* Go's -a on int64 and a - b on int64 or uint64: modulo 2^64.
Neg(a) == Add([k \in 1..4 |-> (LimbBase - 1) - a[k]], One)
Sub(a, b) == Add(a, Neg(b))

\* a < 0 for the int64 a.
IsNegative(a) == a[4] >= LimbBase \div 2

\* Go's a / d and a % d on int64 for a small positive d: the quotient
\* truncates toward zero and the remainder has the sign of a.
SignedDivMod(a, d) ==
    IF IsNegative(a)
    THEN [quo |-> Neg(DivMod(Neg(a), d).quo), rem |-> 0 - DivMod(Neg(a), d).rem]
    ELSE DivMod(a, d)

\* func Unix(sec int64, nsec int64) Time, for -10^9 < nsec < 10^9.
time_Unix(sec, nsec) ==
    IF nsec < 0
    THEN [sec |-> Sub(sec, One), nsec |-> nsec + 1000000000]
    ELSE [sec |-> sec, nsec |-> nsec]

\* func UnixMilli(msec int64) Time { return Unix(msec/1e3, (msec%1e3)*1e6) }
time_UnixMilli(msec) ==
    time_Unix(SignedDivMod(msec, 1000).quo, SignedDivMod(msec, 1000).rem * 1000000)

\* func (t Time) UnixMilli() int64 { return t.unixSec()*1e3 + int64(t.nsec())/1e6 }
Time_UnixMilli(t) == Add(MulSmall(t.sec, 1000), FromNat(t.nsec \div 1000000))

\* A variant of Time that leaves Epoch out.
Time_WithoutEpoch(s, epoch) == time_UnixMilli(Shr(s, 22))

\* func (s Snowflake) Time() time.Time {
\*     return time.UnixMilli(int64(s>>22) + int64(Epoch)) }
Time(s, epoch) == time_UnixMilli(Add(Shr(s, 22), epoch))

\* A variant of ParseTime that yields 0 for a time before Epoch.
ParseTime_ZeroBeforeEpoch(t, epoch) ==
    IF IsNegative(Sub(Time_UnixMilli(t), epoch))
    THEN Zero
    ELSE Shl(Sub(Time_UnixMilli(t), epoch), 22)

\* func ParseTime(t time.Time) Snowflake {
\*     return Snowflake((t.UnixMilli() - int64(Epoch)) << 22) }
ParseTime(t, epoch) == Shl(Sub(Time_UnixMilli(t), epoch), 22)

\* func New() Snowflake { return Snowflake(0) }
New == Zero

(***************************************************************************)
(* Strings: a Go string or []byte is a sequence of byte values.  The model *)
(* writes a literal as a tuple of character names, Str(<<"1", "0">>); DQ,  *)
(* SQ, BQ and BS name the double quote, the single quote, the backquote    *)
(* and the backslash, LF and CR the line feed and the carriage return.     *)
(***************************************************************************)

Ascii ==
    ("0" :> 48) @@ ("1" :> 49) @@ ("2" :> 50) @@ ("3" :> 51) @@ ("4" :> 52) @@
    ("5" :> 53) @@ ("6" :> 54) @@ ("7" :> 55) @@ ("8" :> 56) @@ ("9" :> 57) @@
    ("DQ" :> 34) @@ ("SQ" :> 39) @@ ("BQ" :> 96) @@ ("BS" :> 92) @@
    ("-" :> 45) @@ ("+" :> 43) @@ ("." :> 46) @@ (" " :> 32) @@ ("_" :> 95) @@
    ("LF" :> 10) @@ ("CR" :> 13) @@
    ("a" :> 97) @@ ("b" :> 98) @@ ("c" :> 99) @@ ("d" :> 100) @@ ("e" :> 101) @@
    ("f" :> 102) @@ ("g" :> 103) @@ ("i" :> 105) @@ ("l" :> 108) @@ ("m" :> 109) @@ ("n" :> 110) @@
    ("o" :> 111) @@ ("r" :> 114) @@ ("t" :> 116) @@ ("u" :> 117) @@ ("v" :> 118) @@
    ("x" :> 120) @@ ("z" :> 122) @@ ("A" :> 65) @@ ("F" :> 70) @@ ("U" :> 85) @@ ("Z" :> 90)

Ch(c) == Ascii[c]

Str(cs) == [k \in 1..Len(cs) |-> Ascii[cs[k]]]

\* s[from:] with a 0-based offset, as Go slices a string.
Drop(s, from) == SubSeq(s, from + 1, Len(s))

\* strings.IndexByte: the 0-based index of the first c in s, or -1.
IndexByte(s, c) ==
    IF \E k \in 1..Len(s) : s[k] = c
    THEN (CHOOSE k \in 1..Len(s) : s[k] = c /\ \A j \in 1..(k - 1) : s[j] # c) - 1
    ELSE -1

Contains(s, c) == \E k \in 1..Len(s) : s[k] = c

(***************************************************************************)
(* strconv.FormatUint(v, 10), as String calls it (snowflake.go:215)        *)
(***************************************************************************)

RECURSIVE FormatDigits(_)
FormatDigits(v) ==
    IF v = Zero THEN <<>>
    ELSE Append(FormatDigits(DivMod(v, 10).quo), Ch("0") + DivMod(v, 10).rem)

FormatUint(v) == IF v = Zero THEN <<Ch("0")>> ELSE FormatDigits(v)

\* A variant of String that formats the value as a signed integer:
\* strconv.FormatInt(int64(s), 10).
String_Signed(s) ==
    IF s[4] >= 32768
    THEN <<Ch("-")>> \o FormatUint(Add([k \in 1..4 |-> 65535 - s[k]], One))
    ELSE FormatUint(s)

\* func (s Snowflake) String() string { return strconv.FormatUint(uint64(s), 10) }
String(s) == FormatUint(s)

\* func (s Snowflake) Value() uint64 { return uint64(s) }
Value(s) == s

(***************************************************************************)
(* strconv.ParseUint(s, 10, 64), as ParseString calls it (snowflake.go:366)*)
(***************************************************************************)

\* cutoff = maxUint64/10 + 1: the smallest n such that n*10 overflows.
Cutoff == Add(DivMod(MaxUint64, 10).quo, One)

\* The digit value of byte c: 0..9 for a digit, 10..35 for a letter, else -1.
DigitValue(c) ==
    IF Ch("0") <= c /\ c <= Ch("9") THEN c - Ch("0")
    ELSE IF Ch("a") <= c /\ c <= Ch("z") THEN c - Ch("a") + 10
    ELSE IF Ch("A") <= c /\ c <= Ch("Z") THEN c - Ch("A") + 10
    ELSE -1

RECURSIVE ParseUintLoop(_, _, _)
ParseUintLoop(s, k, n) ==
    IF k > Len(s) THEN [val |-> n, err |-> "nil"]
    ELSE LET d == DigitValue(s[k])
             m == MulSmall(n, 10)
             n1 == Add(m, FromNat(d))
         IN IF d < 0 \/ d >= 10 THEN [val |-> Zero, err |-> "ErrSyntax"]
            ELSE IF ~Less(n, Cutoff) THEN [val |-> MaxUint64, err |-> "ErrRange"]
            ELSE IF Less(n1, m) THEN [val |-> MaxUint64, err |-> "ErrRange"]
            ELSE ParseUintLoop(s, k + 1, n1)

ParseUint(s) ==
    IF s = <<>> THEN [val |-> Zero, err |-> "ErrSyntax"]
    ELSE ParseUintLoop(s, 1, Zero)

(***************************************************************************)
(* Errors (errors.go)                                                      *)
(***************************************************************************)

\* A nil error.
Nil == [type |-> "nil", cause |-> "nil"]

\* &StringParseError{SnowflakeError{message, err}}
StringParseError(cause) == [type |-> "StringParseError", cause |-> cause]

\* &UnquotedIntegerError{SnowflakeError{message, err}}
UnquotedIntegerError(cause) == [type |-> "UnquotedIntegerError", cause |-> cause]

\* A variant of ParseString that returns what ParseUint returned beside the
\* error, instead of 0.
ParseString_KeepsParsed(s) ==
    LET r == ParseUint(s)
    IN IF r.err # "nil"
       THEN [val |-> r.val, err |-> StringParseError(r.err)]
       ELSE [val |-> r.val, err |-> Nil]

\* func ParseString(s string) (Snowflake, error)
ParseString(s) ==
    LET r == ParseUint(s)
    IN IF r.err # "nil"
       THEN [val |-> Zero, err |-> StringParseError(r.err)]
       ELSE [val |-> r.val, err |-> Nil]

(***************************************************************************)
(* strconv.Unquote(s), as ParseJSON calls it (snowflake.go:456).  Input    *)
(* bytes are ASCII (below utf8.RuneSelf), so every input is valid UTF-8    *)
(* and one input byte is one rune.                                         *)
(***************************************************************************)

\* unhex: the value of a hexadecimal digit, or -1.
Unhex(c) ==
    IF Ch("0") <= c /\ c <= Ch("9") THEN c - Ch("0")
    ELSE IF Ch("a") <= c /\ c <= Ch("f") THEN c - Ch("a") + 10
    ELSE IF Ch("A") <= c /\ c <= Ch("F") THEN c - Ch("A") + 10
    ELSE -1

\* v = v<<4 | x over the hexadecimal digits of s (at most four of them).
RECURSIVE HexValue(_)
HexValue(s) ==
    IF s = <<>> THEN 0 ELSE HexValue(SubSeq(s, 1, Len(s) - 1)) * 16 + Unhex(s[Len(s)])

\* utf8.ValidRune
ValidRune(r) == (0 <= r /\ r < 55296) \/ (57343 < r /\ r <= 1114111)

\* utf8.AppendRune: the UTF-8 encoding of a valid rune.
EncodeRune(r) ==
    IF r < 128 THEN <<r>>
    ELSE IF r < 2048 THEN <<192 + (r \div 64), 128 + (r % 64)>>
    ELSE IF r < 65536
         THEN <<224 + (r \div 4096), 128 + ((r \div 64) % 64), 128 + (r % 64)>>
    ELSE <<240 + (r \div 262144), 128 + ((r \div 4096) % 64),
           128 + ((r \div 64) % 64), 128 + (r % 64)>>

SyntaxErrorChar == [ok |-> FALSE, value |-> 0, multibyte |-> FALSE, tail |-> <<>>]

\* The \x, \u and \U escapes: n hexadecimal digits follow in s.
UnquoteHex(c, s) ==
    LET n == IF c = Ch("x") THEN 2 ELSE IF c = Ch("u") THEN 4 ELSE 8
        digits == SubSeq(s, 1, n)
        \* A 32-bit v is kept as its high and low 16 bits.
        hi == IF n = 8 THEN HexValue(SubSeq(s, 1, 4)) ELSE 0
        lo == IF n = 8 THEN HexValue(SubSeq(s, 5, 8)) ELSE HexValue(digits)
        v == hi * 65536 + lo
    IN IF Len(s) < n THEN SyntaxErrorChar
       ELSE IF \E k \in 1..n : Unhex(digits[k]) < 0 THEN SyntaxErrorChar
       ELSE IF c = Ch("x")
            THEN [ok |-> TRUE, value |-> v, multibyte |-> FALSE, tail |-> Drop(s, n)]
       ELSE IF hi > 16 \/ ~ValidRune(v) THEN SyntaxErrorChar
       ELSE [ok |-> TRUE, value |-> v, multibyte |-> TRUE, tail |-> Drop(s, n)]

\* The octal escape \ooo: c is the first digit, two more follow in s.
UnquoteOctal(c, s) ==
    LET v == ((c - Ch("0")) * 8 + (s[1] - Ch("0"))) * 8 + (s[2] - Ch("0"))
    IN IF Len(s) < 2 THEN SyntaxErrorChar
       ELSE IF \E j \in 1..2 : s[j] - Ch("0") < 0 \/ s[j] - Ch("0") > 7
            THEN SyntaxErrorChar
       ELSE IF v > 255 THEN SyntaxErrorChar
       ELSE [ok |-> TRUE, value |-> v, multibyte |-> FALSE, tail |-> Drop(s, 2)]

\* strconv.UnquoteChar(s, quote): the first character or escape of s.
UnquoteChar(s, quote) ==
    LET simple(v, rest) == [ok |-> TRUE, value |-> v, multibyte |-> FALSE, tail |-> rest]
        c == s[2]
        rest == Drop(s, 2)
    IN IF Len(s) = 0 THEN SyntaxErrorChar
       ELSE IF s[1] = quote /\ (quote = Ch("SQ") \/ quote = Ch("DQ")) THEN SyntaxErrorChar
       ELSE IF s[1] # Ch("BS") THEN simple(s[1], Drop(s, 1))
       ELSE IF Len(s) <= 1 THEN SyntaxErrorChar
       ELSE IF c = Ch("a") THEN simple(7, rest)
       ELSE IF c = Ch("b") THEN simple(8, rest)
       ELSE IF c = Ch("f") THEN simple(12, rest)
       ELSE IF c = Ch("n") THEN simple(10, rest)
       ELSE IF c = Ch("r") THEN simple(13, rest)
       ELSE IF c = Ch("t") THEN simple(9, rest)
       ELSE IF c = Ch("v") THEN simple(11, rest)
       ELSE IF c = Ch("x") \/ c = Ch("u") \/ c = Ch("U") THEN UnquoteHex(c, rest)
       ELSE IF Ch("0") <= c /\ c <= Ch("7") THEN UnquoteOctal(c, rest)
       ELSE IF c = Ch("BS") THEN simple(Ch("BS"), rest)
       ELSE IF c = Ch("SQ") \/ c = Ch("DQ")
            THEN IF c # quote THEN SyntaxErrorChar ELSE simple(c, rest)
       ELSE SyntaxErrorChar

SyntaxError == [ok |-> FALSE, out |-> <<>>, rem |-> <<>>]

RECURSIVE UnquoteLoop(_, _, _)

\* One turn of the loop of unquote: r is what UnquoteChar made of the head of
\* in, buf the bytes unescaped so far.
UnquoteStep(in, quote, buf, r) ==
    IF in[1] = Ch("LF") \/ ~r.ok THEN SyntaxError
    ELSE IF quote = Ch("SQ")
         \* Single quoted strings must be a single character.
         THEN IF Len(r.tail) > 0 /\ r.tail[1] = quote
              THEN [ok |-> TRUE,
                    out |-> IF r.value < 128 \/ ~r.multibyte
                            THEN Append(buf, r.value)
                            ELSE buf \o EncodeRune(r.value),
                    rem |-> Drop(r.tail, 1)]
              ELSE SyntaxError
    ELSE UnquoteLoop(r.tail, quote,
                     IF r.value < 128 \/ ~r.multibyte
                     THEN Append(buf, r.value)
                     ELSE buf \o EncodeRune(r.value))

\* The loop of unquote over a quoted string with escape sequences: in is what
\* is left after the opening quote, buf the bytes unescaped so far.
UnquoteLoop(in, quote, buf) ==
    IF Len(in) > 0 /\ in[1] # quote
    THEN UnquoteStep(in, quote, buf, UnquoteChar(in, quote))
    ELSE IF Len(in) > 0 /\ in[1] = quote
         THEN [ok |-> TRUE, out |-> buf, rem |-> Drop(in, 1)]
         ELSE SyntaxError

\* strconv's unquote(in, true): the unquoted prefix of in and what follows it.
UnquotePrefix(in) ==
    LET quote == in[1]
        end == IndexByte(Drop(in, 1), quote) + 2
        head == SubSeq(in, 1, end)
        inner == SubSeq(in, 2, end - 1)
        valid == IF quote = Ch("DQ") THEN TRUE
                 \* one rune between the quotes, or none
                 ELSE 1 + (IF inner = <<>> THEN 0 ELSE 1) + 1 = end
    IN IF Len(in) < 2 THEN SyntaxError
       ELSE IF end < 2 THEN SyntaxError
       ELSE IF quote = Ch("BQ")
            THEN [ok |-> TRUE,
                  out |-> SelectSeq(inner, LAMBDA b : b # Ch("CR")),
                  rem |-> Drop(in, end)]
       ELSE IF quote = Ch("DQ") \/ quote = Ch("SQ")
            THEN IF ~Contains(head, Ch("BS")) /\ ~Contains(head, Ch("LF")) /\ valid
                 THEN [ok |-> TRUE, out |-> inner, rem |-> Drop(in, end)]
                 ELSE UnquoteLoop(Drop(in, 1), quote, <<>>)
       ELSE SyntaxError

\* Unquote fails when unquote failed or left something after the closing quote.
WholeString(r) ==
    IF ~r.ok \/ Len(r.rem) > 0 THEN [ok |-> FALSE, out |-> <<>>]
    ELSE [ok |-> TRUE, out |-> r.out]

\* func Unquote(s string) (string, error)
Unquote(s) == WholeString(UnquotePrefix(s))

(***************************************************************************)
(* ParseJSON                                                               *)
(***************************************************************************)

JSON_NULL == Str(<<"n", "u", "l", "l">>)
JSON_ZERO == Str(<<"0">>)
JSON_ZERO_QUOTED == Str(<<"DQ", "0", "DQ">>)

\* A variant of ParseJSON without the check for null, 0 and "0".
ParseJSON_NoZeroCheck(b, allowUnquoted) ==
    LET u == Unquote(b)
    IN IF ~u.ok
       THEN IF ~allowUnquoted
            THEN [val |-> Zero, err |-> UnquotedIntegerError("ErrSyntax")]
            ELSE ParseString(b)
       ELSE ParseString(u.out)

\* A variant of ParseJSON that never looks at AllowUnquoted.
ParseJSON_IgnoresFlag(b, allowUnquoted) ==
    LET u == Unquote(b)
    IN IF b = JSON_NULL \/ b = JSON_ZERO \/ b = JSON_ZERO_QUOTED
       THEN [val |-> Zero, err |-> Nil]
       ELSE IF ~u.ok THEN ParseString(b)
       ELSE ParseString(u.out)

\* A variant of ParseJSON that parses the bare bytes before it looks at
\* AllowUnquoted.
ParseJSON_ParsesBeforeFlag(b, allowUnquoted) ==
    LET u == Unquote(b)
    IN IF b = JSON_NULL \/ b = JSON_ZERO \/ b = JSON_ZERO_QUOTED
       THEN [val |-> Zero, err |-> Nil]
       ELSE IF ~u.ok
            THEN IF ParseString(b).err # Nil THEN ParseString(b)
                 ELSE IF ~allowUnquoted
                      THEN [val |-> Zero, err |-> UnquotedIntegerError("ErrSyntax")]
                      ELSE ParseString(b)
       ELSE ParseString(u.out)

\* func ParseJSON(b []byte) (Snowflake, error)
ParseJSON(b, allowUnquoted) ==
    LET u == Unquote(b)
    IN IF b = JSON_NULL \/ b = JSON_ZERO \/ b = JSON_ZERO_QUOTED
       THEN [val |-> Zero, err |-> Nil]
       ELSE IF ~u.ok
            THEN IF ~allowUnquoted
                 THEN [val |-> Zero, err |-> UnquotedIntegerError("ErrSyntax")]
                 ELSE ParseString(b)
       ELSE ParseString(u.out)

(***************************************************************************)
(* MarshalJSON and UnmarshalJSON                                           *)
(***************************************************************************)

\* The lower-case hexadecimal digit of n in 0..15.
HexDigit(n) == IF n < 10 THEN Ch("0") + n ELSE Ch("a") + (n - 10)

\* strconv's appendEscapedRune for the quote character DQ and an ASCII byte.
QuoteByte(c) ==
    IF c = Ch("DQ") \/ c = Ch("BS") THEN <<Ch("BS"), c>>
    ELSE IF Ch(" ") <= c /\ c < 127 THEN <<c>>
    ELSE IF c = 7 THEN <<Ch("BS"), Ch("a")>>
    ELSE IF c = 8 THEN <<Ch("BS"), Ch("b")>>
    ELSE IF c = 12 THEN <<Ch("BS"), Ch("f")>>
    ELSE IF c = Ch("LF") THEN <<Ch("BS"), Ch("n")>>
    ELSE IF c = Ch("CR") THEN <<Ch("BS"), Ch("r")>>
    ELSE IF c = 9 THEN <<Ch("BS"), Ch("t")>>
    ELSE IF c = 11 THEN <<Ch("BS"), Ch("v")>>
    ELSE <<Ch("BS"), Ch("x"), HexDigit(c \div 16), HexDigit(c % 16)>>

RECURSIVE QuoteBytes(_)
QuoteBytes(s) ==
    IF s = <<>> THEN <<>> ELSE QuoteByte(Head(s)) \o QuoteBytes(Tail(s))

\* func Quote(s string) string, for an ASCII s.
Quote(s) == <<Ch("DQ")>> \o QuoteBytes(s) \o <<Ch("DQ")>>

\* A variant of MarshalJSON that writes the bare integer.
MarshalJSON_Unquoted(s) == [val |-> FormatUint(s), err |-> Nil]

\* A variant of MarshalJSON that writes the integer between single quotes.
MarshalJSON_SingleQuoted(s) ==
    [val |-> <<Ch("SQ")>> \o FormatUint(s) \o <<Ch("SQ")>>, err |-> Nil]

\* func (s Snowflake) MarshalJSON() ([]byte, error) {
\*     return []byte(strconv.Quote(strconv.FormatUint(uint64(s), 10))), nil }
MarshalJSON(s) == [val |-> Quote(FormatUint(s)), err |-> Nil]

\* A variant of UnmarshalJSON that stores the parsed value before it looks
\* at the error.
UnmarshalJSON_StoresFirst(s, b, allowUnquoted) ==
    [s |-> ParseJSON(b, allowUnquoted).val, err |-> ParseJSON(b, allowUnquoted).err]

\* func (s *Snowflake) UnmarshalJSON(b []byte) error: the value of *s after
\* the call, and the error returned.
UnmarshalJSON(s, b, allowUnquoted) ==
    IF ParseJSON(b, allowUnquoted).err # Nil
    THEN [s |-> s, err |-> ParseJSON(b, allowUnquoted).err]
    ELSE [s |-> ParseJSON(b, allowUnquoted).val, err |-> Nil]

(***************************************************************************)
(* Inputs the calls are tried on                                           *)
(***************************************************************************)

\* The longest input of which every string over Alphabet is tried.
MaxLen == 3

Alphabet ==
    {Ch("0"), Ch("1"), Ch("9"), Ch("-"), Ch("n"),
     Ch("DQ"), Ch("SQ"), Ch("BQ"), Ch("BS")}

RECURSIVE StringsOfLen(_)
StringsOfLen(n) ==
    IF n = 0 THEN {<<>>}
    ELSE {Append(s, c) : s \in StringsOfLen(n - 1), c \in Alphabet}

ShortStrings == UNION {StringsOfLen(n) : n \in 0..MaxLen}

\* 2^i for every bit position i.
PowersOfTwo == {[k \in 1..4 |-> IF k = (i \div 16) + 1 THEN Pow2(i % 16) ELSE 0] : i \in 0..63}

\* 175928847299117209 and 1363292549053284505 (snowflake_test.go:12, :56),
\* 854409704704573450 (marshal_json.go), 0xAAAA... and 0x5555..., 1000, 10.
Examples ==
    {<<153, 49410, 1626, 625>>, <<153, 44866, 25433, 4843>>, <<10, 32144, 31001, 3035>>,
     <<43690, 43690, 43690, 43690>>, <<21845, 21845, 21845, 21845>>,
     FromNat(1000), FromNat(10), Zero, One, MaxUint64}

Values ==
    PowersOfTwo \cup Examples
    \cup {<<a, b, c, d>> : a \in {0, 65535}, b \in {0, 65535}, c \in {0, 65535}, d \in {0, 65535}}
    \cup {Add(MaxUint64, v) : v \in {MaxUint64, FromNat(65526)}}

\* The values Bit is tried on, with every index 0..255.
BitValues == Examples \cup {Shl(One, 63), Shl(One, 31), Shl(One, 32)}

Epochs == {DefaultEpoch, FromNat(12345), MaxUint64}

Quoted(s) == <<Ch("DQ")>> \o s \o <<Ch("DQ")>>

\* Inputs of the tests and of the documentation, and escapes Unquote knows.
Literals ==
    {Str(<<"1", "0", "0", "0">>),
     Str(<<"1", "0", "0", "0", "0", "0", "0", "0", "0", "0", "0", "0", "0",
           "0", "0", "0", "0", "0", "0", "0", "0", "0", "0", "0", "0">>),
     Str(<<"1", "8", "4", "4", "6", "7", "4", "4", "0", "7", "3", "7", "0",
           "9", "5", "5", "1", "6", "1", "6">>),
     Str(<<"1", "8", "4", "4", "6", "7", "4", "4", "0", "7", "3", "7", "0",
           "9", "5", "5", "1", "6", "2", "0">>),
     Str(<<"9", "9", "9", "9", "9", "9", "9", "9", "9", "9", "9", "9", "9",
           "9", "9", "9", "9", "9", "9", "9">>),
     Str(<<"0", "0", "0", "0", "0", "0", "0", "0", "0", "0", "0", "0", "0",
           "0", "0", "0", "0", "0", "0", "0", "0", "0", "4", "2">>),
     Str(<<"a", "b", "c", "d", "e", "f">>),
     Str(<<"1", "2", "3", "4", "a", "b", "c", "d", "e", "f">>),
     Str(<<"n", "o", "t", " ", "i", "n", "t", "e", "g", "e", "r">>),
     Str(<<"n", "o", "t", "-", "a", "-", "n", "u", "m", "b", "e", "r">>),
     Str(<<"i", "n", "t", "e", "g", "e", "r">>),
     Str(<<"n", "u", "l", "l">>),
     Str(<<".">>), Str(<<"3", ".", "1", "4">>), Str(<<"+", "1">>),
     Str(<<" ", "1">>), Str(<<"1", " ">>), Str(<<"1", "_", "0">>),
     Str(<<"1", "LF">>), Str(<<"0", "x", "1", "0">>)}

Escapes ==
    {Str(<<"DQ", "BS", "x", "3", "1", "DQ">>),
     Str(<<"DQ", "BS", "0", "6", "1", "DQ">>),
     Str(<<"DQ", "BS", "u", "0", "0", "3", "1", "DQ">>),
     Str(<<"DQ", "BS", "U", "0", "0", "0", "0", "0", "0", "3", "1", "DQ">>),
     Str(<<"DQ", "BS", "U", "F", "F", "F", "F", "0", "0", "3", "1", "DQ">>),
     Str(<<"DQ", "BS", "u", "d", "8", "0", "0", "DQ">>),
     Str(<<"DQ", "BS", "u", "0", "0", "e", "9", "DQ">>),
     Str(<<"DQ", "BS", "x", "f", "f", "DQ">>),
     Str(<<"DQ", "BS", "4", "0", "0", "DQ">>),
     Str(<<"DQ", "1", "BS", "n", "DQ">>),
     Str(<<"DQ", "1", "LF", "DQ">>),
     Str(<<"DQ", "BS", "SQ", "1", "DQ">>),
     Str(<<"DQ", "BS", "DQ", "1", "DQ">>),
     Str(<<"DQ", "1", "BS", "x", "3", "0", "DQ">>),
     Str(<<"SQ", "BS", "x", "3", "1", "SQ">>),
     Str(<<"SQ", "BS", "SQ", "SQ">>),
     Str(<<"SQ", "1", "0", "SQ">>),
     Str(<<"BQ", "1", "CR", "0", "BQ">>),
     Str(<<"BQ", "1", "0", "BQ", "BQ">>),
     Str(<<"DQ", "DQ", "1", "0", "DQ", "DQ">>)}

\* The strings ParseString is tried on.
StringInputs ==
    ShortStrings \cup Literals \cup {String(v) : v \in Values}

\* The byte strings ParseJSON is tried on.
JSONInputs ==
    StringInputs \cup Escapes \cup {Quoted(s) : s \in Literals}
    \cup {Quoted(String(v)) : v \in Values}

\* Milliseconds since 1970 as int64: 0, 0b1111 (snowflake.go:402), the default
\* Epoch and its neighbours, 12345 and 12344, the creation times of two
\* examples, -1, the least and the greatest int64.
Millis ==
    {Zero, FromNat(15), DefaultEpoch, Sub(DefaultEpoch, One), Add(DefaultEpoch, One),
     FromNat(12345), FromNat(12344),
     UnixMilli(<<153, 49410, 1626, 625>>, DefaultEpoch),
     UnixMilli(<<153, 44866, 25433, 4843>>, DefaultEpoch),
     MaxUint64, <<0, 0, 0, 32768>>, <<65535, 65535, 65535, 32767>>}

\* The times ParseTime is tried on: whole milliseconds, and times with
\* microseconds and nanoseconds after the millisecond.
Times ==
    {time_UnixMilli(m) : m \in Millis}
    \cup {[sec |-> time_UnixMilli(m).sec, nsec |-> time_UnixMilli(m).nsec + n] :
             m \in Millis, n \in {1, 999999}}

\* The values and the JSON a caller that keeps one snowflake variable uses:
\* those of TestUnmarshalJSON (snowflake_test.go:150-169) and of the
\* documentation of ParseJSON and UnmarshalJSON.
SessionValues ==
    {Zero, FromNat(10), <<153, 49410, 1626, 625>>, <<153, 44866, 25433, 4843>>, MaxUint64}

SessionJSON ==
    {Str(<<"1", "7", "5", "9", "2", "8", "8", "4", "7", "2", "9", "9", "1", "1", "7",
           "2", "0", "9">>),
     Str(<<"1", "0", "0", "0", "0", "0", "0", "0", "0", "0", "0", "0", "0",
           "0", "0", "0", "0", "0", "0", "0", "0", "0", "0", "0", "0">>),
     Str(<<"DQ", "1", "0", "DQ">>), Str(<<"1", "0">>),
     Str(<<"n", "u", "l", "l">>),
     Str(<<"n", "o", "t", "-", "a", "-", "n", "u", "m", "b", "e", "r">>),
     Str(<<"DQ", "a", "b", "c", "d", "e", "f", "DQ">>),
     Quoted(String(<<153, 44866, 25433, 4843>>))}

(***************************************************************************)
(* The calling program: it sets the package variables and calls one        *)
(* function or method at a time; op, arg, ret and err record the call in   *)
(* progress, its argument, and what it returned.                           *)
(***************************************************************************)

VARIABLES Epoch, AllowUnquoted, op, arg, ret, err, target, held

vars == <<Epoch, AllowUnquoted, op, arg, ret, err, target, held>>

\* The caller keeps no earlier result.
NoCall == [op |-> "none", arg |-> Zero, ret |-> Zero, epoch |-> Zero]

Init ==
    /\ Epoch = DefaultEpoch
    /\ AllowUnquoted = DefaultAllowUnquoted
    /\ op = "idle"
    /\ arg = Zero
    /\ ret = Zero
    /\ err = Nil
    /\ target = New
    /\ held = NoCall

\* The caller, idle, calls o(a), which returns r and the error e.
Returned(o, a, r, e) ==
    /\ op' = o
    /\ arg' = a
    /\ ret' = r
    /\ err' = e
    /\ UNCHANGED <<Epoch, AllowUnquoted, target, held>>

\* snowflake.Epoch = e
SetEpoch ==
    /\ op = "idle"
    /\ \E e \in Epochs : Epoch' = e
    /\ UNCHANGED <<AllowUnquoted, op, arg, ret, err, target, held>>

\* snowflake.AllowUnquoted = b
SetAllowUnquoted ==
    /\ op = "idle"
    /\ \E b \in BOOLEAN : AllowUnquoted' = b
    /\ UNCHANGED <<Epoch, op, arg, ret, err, target, held>>

CallUnixMilli ==
    /\ op = "idle"
    /\ \E s \in Values : Returned("UnixMilli", s, UnixMilli(s, Epoch), Nil)

CallUnix ==
    /\ op = "idle"
    /\ \E s \in Values : Returned("Unix", s, Unix(s, Epoch), Nil)

CallWorkerID ==
    /\ op = "idle"
    /\ \E s \in Values : Returned("WorkerID", s, WorkerID(s), Nil)

CallProcessID ==
    /\ op = "idle"
    /\ \E s \in Values : Returned("ProcessID", s, ProcessID(s), Nil)

CallSequence ==
    /\ op = "idle"
    /\ \E s \in Values : Returned("Sequence", s, Sequence(s), Nil)

CallString ==
    /\ op = "idle"
    /\ \E s \in Values : Returned("String", s, String(s), Nil)

CallValue ==
    /\ op = "idle"
    /\ \E s \in Values : Returned("Value", s, Value(s), Nil)

CallBit ==
    /\ op = "idle"
    /\ \E s \in BitValues, i \in 0..255 :
          Returned("Bit", [s |-> s, i |-> i], Bit(s, i), Nil)

CallBitmap ==
    /\ op = "idle"
    /\ \E s \in Values : Returned("Bitmap", s, Bitmap(s), Nil)

CallParseString ==
    /\ op = "idle"
    /\ \E s \in StringInputs :
          LET r == ParseString(s) IN Returned("ParseString", s, r.val, r.err)

CallParseJSON ==
    /\ op = "idle"
    /\ \E b \in JSONInputs :
          LET r == ParseJSON(b, AllowUnquoted) IN Returned("ParseJSON", b, r.val, r.err)

\* The caller parses the string that String just returned:
\* snowflake.ParseString(s.String()).
CallParseStringOfString ==
    /\ op = "String"
    /\ op' = "ParseStringOfString"
    /\ arg' = [s |-> arg, str |-> ret]
    /\ ret' = ParseString(ret).val
    /\ err' = ParseString(ret).err
    /\ UNCHANGED <<Epoch, AllowUnquoted, target, held>>

CallMarshalJSON ==
    /\ op = "idle"
    /\ \E s \in Values :
          Returned("MarshalJSON", s, MarshalJSON(s).val, MarshalJSON(s).err)

CallParseTime ==
    /\ op = "idle"
    /\ \E t \in Times : Returned("ParseTime", t, ParseTime(t, Epoch), Nil)

CallTime ==
    /\ op = "idle"
    /\ \E s \in Values : Returned("Time", s, Time(s, Epoch), Nil)

\* The caller turns the time that Time just returned back into a snowflake:
\* snowflake.ParseTime(s.Time()).
CallParseTimeOfTime ==
    /\ op = "Time"
    /\ op' = "ParseTimeOfTime"
    /\ arg' = [s |-> arg, t |-> ret]
    /\ ret' = ParseTime(ret, Epoch)
    /\ err' = Nil
    /\ UNCHANGED <<Epoch, AllowUnquoted, target, held>>

CallNew ==
    /\ op = "idle"
    /\ Returned("New", Zero, New, Nil)

\* The caller reads the snowflake that New just returned:
\* s := snowflake.New(); s.UnixMilli(), s.WorkerID(), s.Sequence().
CallUnixMilliOfNew ==
    /\ op = "New"
    /\ op' = "UnixMilliOfNew"
    /\ arg' = ret
    /\ ret' = UnixMilli(ret, Epoch)
    /\ err' = Nil
    /\ UNCHANGED <<Epoch, AllowUnquoted, target, held>>

CallWorkerIDOfNew ==
    /\ op = "New"
    /\ op' = "WorkerIDOfNew"
    /\ arg' = ret
    /\ ret' = WorkerID(ret)
    /\ err' = Nil
    /\ UNCHANGED <<Epoch, AllowUnquoted, target, held>>

CallSequenceOfNew ==
    /\ op = "New"
    /\ op' = "SequenceOfNew"
    /\ arg' = ret
    /\ ret' = Sequence(ret)
    /\ err' = Nil
    /\ UNCHANGED <<Epoch, AllowUnquoted, target, held>>

\* The caller is done with the result.
Return ==
    /\ op # "idle"
    /\ op' = "idle"
    /\ arg' = Zero
    /\ ret' = Zero
    /\ err' = Nil
    /\ UNCHANGED <<Epoch, AllowUnquoted, target, held>>

Next ==
    \/ SetEpoch
    \/ SetAllowUnquoted
    \/ CallUnixMilli
    \/ CallUnix
    \/ CallWorkerID
    \/ CallProcessID
    \/ CallSequence
    \/ CallString
    \/ CallValue
    \/ CallBit
    \/ CallBitmap
    \/ CallParseString
    \/ CallParseJSON
    \/ CallParseStringOfString
    \/ CallMarshalJSON
    \/ CallParseTime
    \/ CallTime
    \/ CallParseTimeOfTime
    \/ CallNew
    \/ CallUnixMilliOfNew
    \/ CallWorkerIDOfNew
    \/ CallSequenceOfNew
    \/ Return

Spec == Init /\ [][Next]_vars

(***************************************************************************)
(* A caller that keeps one snowflake variable, target (s := snowflake.New()*)
(* in TestUnmarshalJSON): it unmarshals JSON into it, marshals values,     *)
(* calls the methods on it, and may keep the result of a call (held) while *)
(* it sets the package variables and calls again.                          *)
(***************************************************************************)

\* err := s.UnmarshalJSON(b); arg keeps the value of s before the call.
SessionUnmarshalJSON ==
    /\ op = "idle"
    /\ \E b \in SessionJSON :
          /\ op' = "UnmarshalJSON"
          /\ arg' = [s |-> target, b |-> b]
          /\ ret' = Zero
          /\ err' = UnmarshalJSON(target, b, AllowUnquoted).err
          /\ target' = UnmarshalJSON(target, b, AllowUnquoted).s
    /\ UNCHANGED <<Epoch, AllowUnquoted, held>>

\* b, _ := v.MarshalJSON()
SessionMarshalJSON ==
    /\ op = "idle"
    /\ \E v \in SessionValues :
          Returned("MarshalJSON", v, MarshalJSON(v).val, MarshalJSON(v).err)

\* The caller parses the bytes that MarshalJSON just returned:
\* snowflake.ParseJSON(b).
SessionParseJSONOfMarshalJSON ==
    /\ op = "MarshalJSON"
    /\ op' = "ParseJSONOfMarshalJSON"
    /\ arg' = [v |-> arg, b |-> ret]
    /\ ret' = ParseJSON(ret, AllowUnquoted).val
    /\ err' = ParseJSON(ret, AllowUnquoted).err
    /\ UNCHANGED <<Epoch, AllowUnquoted, target, held>>

\* The caller unmarshals the bytes that MarshalJSON just returned into its
\* variable: s.UnmarshalJSON(b).
SessionUnmarshalJSONOfMarshalJSON ==
    /\ op = "MarshalJSON"
    /\ op' = "UnmarshalJSONOfMarshalJSON"
    /\ arg' = [s |-> target, v |-> arg, b |-> ret]
    /\ ret' = Zero
    /\ err' = UnmarshalJSON(target, ret, AllowUnquoted).err
    /\ target' = UnmarshalJSON(target, ret, AllowUnquoted).s
    /\ UNCHANGED <<Epoch, AllowUnquoted, held>>

\* s.UnixMilli(), s.Sequence(), s.ProcessID(), s.WorkerID(), s.String() and
\* s.Value() on the caller's variable.
SessionUnixMilli ==
    /\ op = "idle"
    /\ Returned("UnixMilli", target, UnixMilli(target, Epoch), Nil)

SessionSequence ==
    /\ op = "idle"
    /\ Returned("Sequence", target, Sequence(target), Nil)

SessionProcessID ==
    /\ op = "idle"
    /\ Returned("ProcessID", target, ProcessID(target), Nil)

SessionWorkerID ==
    /\ op = "idle"
    /\ Returned("WorkerID", target, WorkerID(target), Nil)

SessionString ==
    /\ op = "idle"
    /\ Returned("String", target, String(target), Nil)

SessionValue ==
    /\ op = "idle"
    /\ Returned("Value", target, Value(target), Nil)

\* The caller keeps what the method returned, and the Epoch it was called
\* under, for a later comparison.
Keep ==
    /\ op \in {"UnixMilli", "Sequence", "ProcessID", "WorkerID", "String", "Value"}
    /\ held' = [op |-> op, arg |-> arg, ret |-> ret, epoch |-> Epoch]
    /\ op' = "idle"
    /\ arg' = Zero
    /\ ret' = Zero
    /\ err' = Nil
    /\ UNCHANGED <<Epoch, AllowUnquoted, target>>

SessionNext ==
    \/ SetEpoch
    \/ SetAllowUnquoted
    \/ SessionUnmarshalJSON
    \/ SessionMarshalJSON
    \/ SessionParseJSONOfMarshalJSON
    \/ SessionUnmarshalJSONOfMarshalJSON
    \/ SessionUnixMilli
    \/ SessionSequence
    \/ SessionProcessID
    \/ SessionWorkerID
    \/ SessionString
    \/ SessionValue
    \/ Keep
    \/ Return

SessionSpec == Init /\ [][SessionNext]_vars

(***************************************************************************)
(* What the claims speak of, said without the operators of the code        *)
(***************************************************************************)

IsDigit(c) == Ch("0") <= c /\ c <= Ch("9")

\* s is a non-empty sequence of decimal digits.
AllDigits(s) == Len(s) > 0 /\ \A k \in 1..Len(s) : IsDigit(s[k])

\* s without its leading zeros, keeping one digit.
RECURSIVE StripZeros(_)
StripZeros(s) ==
    IF Len(s) > 1 /\ s[1] = Ch("0") THEN StripZeros(Tail(s)) ELSE s

\* 2^64 - 1 in decimal.
MaxDecimal ==
    Str(<<"1", "8", "4", "4", "6", "7", "4", "4", "0", "7", "3", "7", "0",
          "9", "5", "5", "1", "6", "1", "5">>)

\* a <= b for two digit strings without leading zeros.
DecimalLeq(a, b) ==
    \/ Len(a) < Len(b)
    \/ /\ Len(a) = Len(b)
       /\ \/ a = b
          \/ \E k \in 1..Len(a) : a[k] < b[k] /\ \A j \in 1..(k - 1) : a[j] = b[j]

\* The digit string s denotes a value in [0, 2^64-1].
InRange(s) == DecimalLeq(StripZeros(s), MaxDecimal)

\* The digit string s denotes the value n: digit by digit from the right.
RECURSIVE Denotes(_, _)
Denotes(s, n) ==
    IF s = <<>> THEN n = Zero
    ELSE /\ DivMod(n, 10).rem = s[Len(s)] - Ch("0")
         /\ Denotes(SubSeq(s, 1, Len(s) - 1), DivMod(n, 10).quo)

\* b is a digit string between one pair of double quotes.
IsQuotedDigits(b) ==
    /\ Len(b) >= 3
    /\ b[1] = Ch("DQ")
    /\ b[Len(b)] = Ch("DQ")
    /\ AllDigits(SubSeq(b, 2, Len(b) - 1))

Inner(b) == SubSeq(b, 2, Len(b) - 1)

\* b is between one pair of double quotes with no quote, backslash or
\* line feed inside: a string every reading of JSON and of Go agrees on.
IsPlainQuoted(b) ==
    /\ Len(b) >= 2
    /\ b[1] = Ch("DQ")
    /\ b[Len(b)] = Ch("DQ")
    /\ \A k \in 2..(Len(b) - 1) : b[k] \notin {Ch("DQ"), Ch("BS"), Ch("LF")}

\* b does not begin with a quote character of any kind.
IsBare(b) == Len(b) = 0 \/ b[1] \notin {Ch("DQ"), Ch("SQ"), Ch("BQ")}

ZeroLiterals == {Str(<<"n", "u", "l", "l">>), Str(<<"0">>), Str(<<"DQ", "0", "DQ">>)}

\* v >> 22 by arithmetic: the quotient of v by 2^22.
TimestampField(v) ==
    << (v[2] \div 64) + (v[3] % 64) * 1024,
       (v[3] \div 64) + (v[4] % 64) * 1024,
       v[4] \div 64,
       0 >>

\* x modulo 2^42: the low 42 bits of x.
Low42(x) == <<x[1], x[2], x[3] % 1024, 0>>

\* v with its low 22 bits cleared, by arithmetic: v - v mod 2^22.
ClearLow22(v) == <<0, v[2] - (v[2] % 64), v[3], v[4]>>

\* The time t in whole milliseconds since 1970-01-01T00:00:00Z, as int64:
\* 1000 for every second and one for every 10^6 nanoseconds.
MillisSince1970(t) == Add(MulSmall(t.sec, 1000), FromNat(t.nsec \div 1000000))

(***************************************************************************)
(* Claims                                                                  *)
(***************************************************************************)

\* C1: for every snowflake v, Sequence(v) is bits 0..11 of v (v & 0xFFF),
\* ProcessID(v) is bits 12..16 ((v & 0x1F000) >> 12) and WorkerID(v) is bits
\* 17..21 ((v & 0x3E0000) >> 17), whatever Epoch and AllowUnquoted are.
C1_FieldExtraction ==
    /\ op = "Sequence" => ret = arg[1] % 4096
    /\ op = "ProcessID" => ret = (arg[1] \div 4096) + 16 * (arg[2] % 2)
    /\ op = "WorkerID" => ret = (arg[2] \div 2) % 32

C1_Witness ==
    /\ op = "WorkerID"
    /\ arg = <<153, 44866, 25433, 4843>>
    /\ ret = 1
    /\ Epoch # DefaultEpoch
    /\ ~AllowUnquoted

\* C2: for every snowflake v and every Epoch, UnixMilli(v) is
\* ((v >> 22) + Epoch) mod 2^64, wrapping silently, and Unix(v) is the floor
\* of UnixMilli(v) / 1000: the q <= 18446744073709551 with
\* 1000 * q + r = UnixMilli(v) for some r in 0..999.
C2_UnixMilliWraps ==
    /\ op = "UnixMilli" => ret = Add(TimestampField(arg), Epoch)
    /\ op = "Unix" =>
          /\ ~Less(<<42991, 19398, 35127, 65>>, ret)
          /\ \E r \in 0..999 :
                Add(MulSmall(ret, 1000), FromNat(r)) = Add(TimestampField(arg), Epoch)

\* The sum wrapped: the result is below Epoch.
C2_Witness ==
    /\ op = "UnixMilli"
    /\ Epoch = MaxUint64
    /\ arg = <<153, 49410, 1626, 625>>
    /\ Less(ret, Epoch)

\* C3: for every snowflake v and every index i in 0..255, Bit(v, i) is true
\* exactly when i < 64 and binary digit i of v is 1; for i in 64..255 it is
\* false.
C3_BitIndexing ==
    op = "Bit" => (ret <=> (arg.i < 64 /\ BitAt(arg.s, arg.i) = 1))

C3_Witness ==
    /\ op = "Bit"
    /\ arg.s = MaxUint64
    /\ arg.i = 255
    /\ ret = FALSE

C5_ParseStringAccepts ==
    op = "ParseString" =>
        IF AllDigits(arg) /\ InRange(arg)
        THEN err = Nil /\ Denotes(arg, ret)
        ELSE err.type = "StringParseError" /\ ret = Zero

\* 2^64 is one too many.
C5_Witness ==
    /\ op = "ParseString"
    /\ arg = Str(<<"1", "8", "4", "4", "6", "7", "4", "4", "0", "7", "3", "7", "0",
                   "9", "5", "5", "1", "6", "1", "6">>)
    /\ err.type = "StringParseError"
    /\ ret = Zero

\* C6: for every 64-bit v, String(v) is the decimal rendering of v without
\* leading zeros ("0" for 0) and ParseString(String(v)) returns v and no
\* error.
C6_StringRoundTrip ==
    /\ op = "String" =>
          /\ AllDigits(ret)
          /\ StripZeros(ret) = ret
          /\ (arg = Zero => ret = Str(<<"0">>))
    /\ op = "ParseStringOfString" => ret = arg.s /\ err = Nil

C6_Witness ==
    /\ op = "ParseStringOfString"
    /\ arg.s = MaxUint64
    /\ arg.str = MaxDecimal
    /\ ret = MaxUint64

\* C7: ParseJSON returns snowflake 0 and no error on exactly null, 0 and
\* "0", whatever AllowUnquoted is: the bare 0 is accepted even when
\* AllowUnquoted is false.
C7_ZeroLiterals ==
    (op = "ParseJSON" /\ arg \in ZeroLiterals) => (ret = Zero /\ err = Nil)

C7_Witness ==
    /\ op = "ParseJSON"
    /\ arg = Str(<<"0">>)
    /\ ~AllowUnquoted
    /\ ret = Zero
    /\ err = Nil

\* C8: for every digit string d denoting n in [0, 2^64-1], ParseJSON of d in
\* double quotes returns n and no error whatever AllowUnquoted is; ParseJSON
\* of the bare d (other than 0) returns n when AllowUnquoted is true and fails
\* when it is false.
C8_QuotedAndBare ==
    op = "ParseJSON" =>
        /\ (IsQuotedDigits(arg) /\ InRange(Inner(arg))) =>
              (err = Nil /\ Denotes(Inner(arg), ret))
        /\ (AllDigits(arg) /\ InRange(arg) /\ arg # Str(<<"0">>)) =>
              IF AllowUnquoted THEN err = Nil /\ Denotes(arg, ret)
              ELSE err # Nil

C8_Witness ==
    /\ op = "ParseJSON"
    /\ arg = Str(<<"1", "0">>)
    /\ ~AllowUnquoted
    /\ err.type = "UnquotedIntegerError"

\* C9: for any input of ParseJSON other than null, 0 and "0": when unquoting
\* fails and AllowUnquoted is false the error is an UnquotedIntegerError, even
\* if the bytes are not digits; every other failure (quoted content that is
\* not a decimal in range, under either flag; bare bytes that are not a
\* decimal in range, when AllowUnquoted is true) is a StringParseError; and
\* a failure returns snowflake 0.
C9_ErrorClasses ==
    (op = "ParseJSON" /\ arg \notin ZeroLiterals) =>
        /\ (~Unquote(arg).ok /\ ~AllowUnquoted) => err.type = "UnquotedIntegerError"
        /\ (err # Nil /\ (Unquote(arg).ok \/ AllowUnquoted)) =>
              err.type = "StringParseError"
        /\ (IsBare(arg) /\ ~AllowUnquoted) => err.type = "UnquotedIntegerError"
        /\ (IsBare(arg) /\ AllowUnquoted /\ ~(AllDigits(arg) /\ InRange(arg))) =>
              err.type = "StringParseError"
        /\ (IsPlainQuoted(arg) /\ ~(AllDigits(Inner(arg)) /\ InRange(Inner(arg)))) =>
              err.type = "StringParseError"
        /\ err # Nil => ret = Zero

C9_Witness ==
    /\ op = "ParseJSON"
    /\ arg = Str(<<"i", "n", "t", "e", "g", "e", "r">>)
    /\ ~AllowUnquoted
    /\ err.type = "UnquotedIntegerError"
    /\ ret = Zero

\* C10: when AllowUnquoted is false, ParseJSON succeeds only on null, 0, or
\* a decimal digit string in exactly one pair of double quotes: input in
\* single quotes or backquotes, or with backslash escapes, is not accepted.
C10_OnlyDoubleQuotedDigits ==
    (op = "ParseJSON" /\ ~AllowUnquoted /\ err = Nil) =>
        (arg \in ZeroLiterals \/ IsQuotedDigits(arg))

\* C11: for every 64-bit v and both values of AllowUnquoted, MarshalJSON(v)
\* returns a nil error and exactly a double quote, the decimal digits of v
\* without leading zeros (String(v)), and a double quote: never a bare
\* integer, also for v = 0.
C11_MarshalQuoted ==
    op = "MarshalJSON" =>
        /\ err = Nil
        /\ IsQuotedDigits(ret)
        /\ Denotes(Inner(ret), arg)
        /\ StripZeros(Inner(ret)) = Inner(ret)
        /\ ret = <<Ch("DQ")>> \o String(arg) \o <<Ch("DQ")>>

C11_Witness ==
    /\ op = "MarshalJSON"
    /\ arg = Zero
    /\ ~AllowUnquoted
    /\ ret = Str(<<"DQ", "0", "DQ">>)
    /\ err = Nil

\* C12: s.UnmarshalJSON(b): when ParseJSON(b) succeeds, s becomes the parsed
\* value and nil is returned; when ParseJSON(b) fails, its error is returned
\* and s keeps the value it had before the call, whatever unmarshals, failed
\* or not, came before.
C12_UnmarshalKeepsOnFailure ==
    op = "UnmarshalJSON" =>
        /\ IF ParseJSON(arg.b, AllowUnquoted).err = Nil
           THEN target = ParseJSON(arg.b, AllowUnquoted).val /\ err = Nil
           ELSE err = ParseJSON(arg.b, AllowUnquoted).err /\ target = arg.s
        /\ (IsQuotedDigits(arg.b) /\ InRange(Inner(arg.b))) =>
              (err = Nil /\ Denotes(Inner(arg.b), target))
        /\ err # Nil => target = arg.s

\* A failed unmarshal after a successful one (TestUnmarshalJSON).
C12_Witness ==
    /\ op = "UnmarshalJSON"
    /\ arg.s = <<153, 49410, 1626, 625>>
    /\ arg.b = Str(<<"n", "o", "t", "-", "a", "-", "n", "u", "m", "b", "e", "r">>)
    /\ err.type = "StringParseError"
    /\ target = <<153, 49410, 1626, 625>>

C14_EpochReadAtCall ==
    (held.op = op /\ held.arg = arg) =>
        IF op = "UnixMilli"
        THEN /\ held.ret = Add(TimestampField(arg), held.epoch)
             /\ ret = Add(TimestampField(arg), Epoch)
        ELSE ret = held.ret

C14_Witness ==
    /\ op = "UnixMilli"
    /\ held.op = "UnixMilli"
    /\ arg = <<153, 49410, 1626, 625>>
    /\ held.arg = arg
    /\ held.epoch = DefaultEpoch
    /\ Epoch = FromNat(12345)
    /\ ret # held.ret

\* C15: New() returns the snowflake with raw value 0, and UnixMilli(),
\* WorkerID() and Sequence() of it each return 0.
C15_NewIsAllZero ==
    /\ op = "New" => ret = Zero
    /\ op = "UnixMilliOfNew" => ret = Zero
    /\ op = "WorkerIDOfNew" => ret = 0
    /\ op = "SequenceOfNew" => ret = 0

\* C16: for every 64-bit v and both values of AllowUnquoted,
\* ParseJSON(MarshalJSON(v)) returns v and no error, and UnmarshalJSON of
\* MarshalJSON(v) into a variable holding any value leaves v in it.
C16_JSONRoundTrip ==
    /\ op = "ParseJSONOfMarshalJSON" => (ret = arg.v /\ err = Nil)
    /\ op = "UnmarshalJSONOfMarshalJSON" => (target = arg.v /\ err = Nil)

C16_Witness ==
    /\ op = "UnmarshalJSONOfMarshalJSON"
    /\ ~AllowUnquoted
    /\ arg.s = <<153, 49410, 1626, 625>>
    /\ arg.v = MaxUint64
    /\ arg.b = <<Ch("DQ")>> \o MaxDecimal \o <<Ch("DQ")>>
    /\ target = MaxUint64

\* C17: for every snowflake s and every Epoch, unchanged between the two
\* calls, ParseTime(s.Time()) is s with its low 22 bits cleared: the
\* timestamp field is kept and worker, process and sequence are 0.
C17_TimeRoundTrip ==
    op = "ParseTimeOfTime" =>
        /\ ret = ClearLow22(arg.s)
        /\ TimestampField(ret) = TimestampField(arg.s)
        /\ WorkerID(ret) = 0
        /\ ProcessID(ret) = 0
        /\ Sequence(ret) = 0

\* The sum (s >> 22) + Epoch wraps and the low bits of s are not all zero.
C17_Witness ==
    /\ op = "ParseTimeOfTime"
    /\ Epoch = MaxUint64
    /\ arg.s = <<153, 49410, 1626, 625>>
    /\ ret = <<0, 49408, 1626, 625>>

====
